---- MODULE Spec2Model ----
(***************************************************************************)
(* Transaction-message ingestion pipeline of the expense tracker:          *)
(* services/transaction_service.py (TransactionService),                   *)
(* services/llm_service.py (LLMService.parse_transaction_message),         *)
(* routes/transactions.py (the HTTP handlers) and models/models.py (the    *)
(* tables).                                                                *)
(*                                                                         *)
(* Amounts are whole numbers of the smallest currency unit.  The columns   *)
(* are db.Float; on integer-valued amounts of this size IEEE-754 double    *)
(* addition and subtraction are exact, so the arithmetic below is the      *)
(* arithmetic of the code on these inputs.                                 *)
(*                                                                         *)
(* The database is the set of committed rows of each table.  A request's   *)
(* SQLAlchemy session holds its flushed but uncommitted rows in req[w];    *)
(* db.session.commit() moves them to the tables in one step and            *)
(* db.session.rollback() drops them.                                       *)
(***************************************************************************)
EXTENDS Integers, Sequences, FiniteSets, TLC

VARIABLES
    transactions,   \* table 'transactions'   (models.Transaction)
    user_balance,   \* table 'user_balance'   (models.UserBalance)
    expenses,       \* table 'expenses'       (models.Expense)
    incomes,        \* table 'incomes'        (models.Income)
    req,            \* per worker: the request it is serving and its session
    nreq,           \* number of requests received so far
    last,           \* the request that finished last, with its response
    prev,           \* the request that finished before it
    llm_response    \* the answer of the language model to the last parser call,
                    \* kept in the runs that look at the parser's validation

vars == <<transactions, user_balance, expenses, incomes, req, nreq, last, prev,
          llm_response>>

tables == <<transactions, user_balance, expenses, incomes>>

-----------------------------------------------------------------------------
(* Bounds of the model *)

MaxRequests == 3

Users == {1, 2}

\* Message texts of an accepted length: "m1" is 10 characters long, "m2" 2000
Messages == {"m1", "m2"}

\* Message texts of every length class: "short" is 9 characters long, "long" 2001
Texts == Messages \cup {"short", "long"}

\* The 'message' field of a request body: a text, with or without a blank
\* before and after it
RawMessages == [text : Texts, padding : {0, 1}]

\* The messages of the runs with overlapping requests; "m3" is 11 characters long
ConcMessages == Messages \cup {"m3"}

Workers == {"w1", "w2"}

Main == "w1"

\* The user of the runs with storage faults and with overlapping requests
FaultUser == CHOOSE u \in Users : TRUE

\* Amounts a message or an edit can carry
Amounts == {1, 2}

-----------------------------------------------------------------------------
(* Values *)

NULL == "NULL"

\* Expense.CATEGORIES / LLMService.EXPENSE_CATEGORIES
EXPENSE_CATEGORIES == {"Food", "Travel", "Shopping", "Bills", "Entertainment", "Health", "Other"}

\* hashlib.sha256(message_text.encode()).hexdigest(): a fixed function of the
\* text, distinct for distinct texts
generate_message_hash(message_text) == <<"sha256", message_text>>

\* message_hash = NULL, in the shape of a fingerprint
NoHash == <<NULL, "">>

\* What the language-model call can hand back: no content at all (unreachable,
\* timeout, non-200), content that is not JSON, JSON that is not an object (an
\* array, or a number, true, false or null), an object lacking a required
\* field, a non-numeric amount, or a complete object.
LLMResponses ==
    [api_ok : {FALSE}, json_ok : {FALSE}, json_type : {NULL}, has_fields : {FALSE},
     numeric : {FALSE}, transaction_type : {NULL}, amount : {0}, expense_category : {NULL}]
    \cup
    [api_ok : {TRUE}, json_ok : {FALSE}, json_type : {NULL}, has_fields : {FALSE},
     numeric : {FALSE}, transaction_type : {NULL}, amount : {0}, expense_category : {NULL}]
    \cup
    [api_ok : {TRUE}, json_ok : {TRUE}, json_type : {"number"}, has_fields : {FALSE},
     numeric : {FALSE}, transaction_type : {NULL}, amount : {0}, expense_category : {NULL}]
    \cup
    [api_ok : {TRUE}, json_ok : {TRUE}, json_type : {"object"}, has_fields : {FALSE},
     numeric : {FALSE}, transaction_type : {"Debit"}, amount : {0}, expense_category : {NULL}]
    \cup
    [api_ok : {TRUE}, json_ok : {TRUE}, json_type : {"object"}, has_fields : {TRUE},
     numeric : {FALSE}, transaction_type : {"Debit"}, amount : {0}, expense_category : {"Food"}]
    \cup
    [api_ok : {TRUE}, json_ok : {TRUE}, json_type : {"object"}, has_fields : {TRUE},
     numeric : {TRUE}, transaction_type : {"Credit", "Debit", "Transfer"},
     amount : Amounts \cup {0}, expense_category : {"Food"}]
    \cup
    [api_ok : {TRUE}, json_ok : {TRUE}, json_type : {"object"}, has_fields : {TRUE},
     numeric : {TRUE}, transaction_type : {"Debit"}, amount : {1},
     expense_category : {"Groceries"}]

\* The responses of the runs with overlapping requests: the failures and the
\* complete objects with amount 1
ConcResponses ==
    {r \in LLMResponses : r.amount \in {0, 1} /\ r.expense_category # "Groceries"}

\* The responses of the runs that look at the validation: those above, a JSON
\* array, negative amounts, and an unlisted category with either direction
ParseInputs ==
    {r \in LLMResponses : r.amount \in {0, 1}}
    \cup
    [api_ok : {TRUE}, json_ok : {TRUE}, json_type : {"array"},
     has_fields : {FALSE}, numeric : {FALSE}, transaction_type : {NULL}, amount : {0},
     expense_category : {NULL}]
    \cup
    [api_ok : {TRUE}, json_ok : {TRUE}, json_type : {"object"}, has_fields : {TRUE},
     numeric : {TRUE}, transaction_type : {"Credit", "Debit", "Transfer"},
     amount : {-1, 0, 1}, expense_category : {"Food", "Groceries"}]

\* No parser call yet
NoResponse ==
    [api_ok |-> FALSE, json_ok |-> FALSE, json_type |-> NULL, has_fields |-> FALSE,
     numeric |-> FALSE, transaction_type |-> NULL, amount |-> 0, expense_category |-> NULL]

\* parsed_data = None
NoParse ==
    [valid |-> FALSE, raised |-> FALSE, transaction_type |-> NULL, amount |-> 0,
     expense_category |-> NULL]

\* The call does not return: an exception leaves parse_transaction_message
ParseRaised == [NoParse EXCEPT !.raised = TRUE]

\* The validation as it would be if it kept the category the model answered
parse_transaction_message_keeping_category(response) ==
    IF ~response.api_ok THEN NoParse
    ELSE IF ~response.json_ok THEN NoParse
    ELSE IF response.json_type = "number" THEN ParseRaised
    ELSE IF response.json_type = "array" THEN NoParse
    ELSE IF ~response.has_fields THEN NoParse
    ELSE IF response.transaction_type \notin {"Credit", "Debit"} THEN NoParse
    ELSE IF ~response.numeric THEN NoParse
    ELSE IF response.amount <= 0 THEN NoParse
    ELSE [valid |-> TRUE, raised |-> FALSE,
          transaction_type |-> response.transaction_type,
          amount |-> response.amount,
          expense_category |-> response.expense_category]

\* LLMService.parse_transaction_message: validation of the response.
\* json.loads gives a dict, a list, or for a JSON number, true, false or null
\* an int, float, bool or None; "field in parsed" on these raises TypeError,
\* which the handler for json.JSONDecodeError does not catch.
parse_transaction_message(response) ==
    IF ~response.api_ok THEN NoParse
    ELSE IF ~response.json_ok THEN NoParse
    ELSE IF response.json_type = "number" THEN ParseRaised
    ELSE IF response.json_type = "array" THEN NoParse
    ELSE IF ~response.has_fields THEN NoParse
    ELSE IF response.transaction_type \notin {"Credit", "Debit"} THEN NoParse
    ELSE IF ~response.numeric THEN NoParse
    ELSE IF response.amount <= 0 THEN NoParse
    ELSE [valid |-> TRUE, raised |-> FALSE,
          transaction_type |-> response.transaction_type,
          amount |-> response.amount,
          expense_category |-> IF response.expense_category \notin EXPENSE_CATEGORIES
                               THEN "Other" ELSE response.expense_category]

\* len(message_text) of the texts above
message_length(message_text) ==
    CASE message_text = "short" -> 9
      [] message_text = "m1" -> 10
      [] message_text = "m3" -> 11
      [] message_text = "m2" -> 2000
      [] message_text = "long" -> 2001

\* data['message'].strip()
strip(message) == message.text

\* routes/transactions.py line 61
MinMessageLength == 10

\* routes/transactions.py line 67
MaxMessageLength == 2000

\* helpers.validate_amount
validate_amount(amount) == amount > 0

-----------------------------------------------------------------------------
(* Tables *)

Max(S) == CHOOSE x \in S : \A y \in S : y <= x

\* Integer primary key of a new row (SQLite rowid: largest id in the table + 1)
next_id(table) == IF table = {} THEN 1 ELSE Max({r.id : r \in table}) + 1

DB == [transactions |-> transactions, user_balance |-> user_balance,
       expenses |-> expenses, incomes |-> incomes]

EmptyDB == [transactions |-> {}, user_balance |-> {}, expenses |-> {}, incomes |-> {}]

\* UserBalance(user_id=user_id): column defaults 0.0
new_balance(user_id) ==
    [user_id |-> user_id, current_balance |-> 0, total_credits |-> 0, total_debits |-> 0]

\* UserBalance.query.filter_by(user_id=user_id) against the committed table
balance_rows(user_id) == {b \in user_balance : b.user_id = user_id}


\* check_duplicate_message as it would be if the query also filtered on the
\* column default processing_status='pending'
check_duplicate_pending_only(user_id, message_hash) ==
    \E t \in transactions : /\ t.user_id = user_id
                            /\ t.message_hash = message_hash
                            /\ t.processing_status = "pending"

\* check_duplicate_message as it would be if the query did not filter on
\* user_id
check_duplicate_of_any_user(user_id, message_hash) ==
    \E t \in transactions : t.message_hash = message_hash

\* check_duplicate_message as it would be if the query also filtered on
\* processing_status='processed'
check_duplicate_processed_only(user_id, message_hash) ==
    \E t \in transactions : /\ t.user_id = user_id
                            /\ t.message_hash = message_hash
                            /\ t.processing_status = "processed"

\* Transaction.query.filter_by(user_id=..., message_hash=...).first() is not None
check_duplicate_message(user_id, message_hash) ==
    \E t \in transactions : t.user_id = user_id /\ t.message_hash = message_hash

\* The lookup of the edit and delete flows as it would be without the
\* is_auto_detected=True filter
expense_rows_of_any_origin(expense_id, user_id) ==
    {e \in expenses : e.id = expense_id /\ e.user_id = user_id}

\* Expense.query.filter_by(id=expense_id, user_id=user_id, is_auto_detected=True)
auto_expense_rows(expense_id, user_id) ==
    {e \in expenses : e.id = expense_id /\ e.user_id = user_id /\ e.is_auto_detected}

\* get_user_balance as it would be if the query did not filter on user_id
get_user_balance_of_any_user(user_id) ==
    IF user_balance # {}
    THEN LET b == CHOOSE b \in user_balance : TRUE
         IN  [current_balance |-> b.current_balance,
              total_credits |-> b.total_credits,
              total_debits |-> b.total_debits]
    ELSE [current_balance |-> 0, total_credits |-> 0, total_debits |-> 0]

\* TransactionService.get_user_balance
get_user_balance(user_id) ==
    IF balance_rows(user_id) # {}
    THEN LET b == CHOOSE b \in balance_rows(user_id) : TRUE
         IN  [current_balance |-> b.current_balance,
              total_credits |-> b.total_credits,
              total_debits |-> b.total_debits]
    ELSE [current_balance |-> 0, total_credits |-> 0, total_debits |-> 0]

\* The same view of a saved database
balance_in(db, user_id) ==
    IF \E b \in db.user_balance : b.user_id = user_id
    THEN LET b == CHOOSE b \in db.user_balance : b.user_id = user_id
         IN  [current_balance |-> b.current_balance,
              total_credits |-> b.total_credits,
              total_debits |-> b.total_debits]
    ELSE [current_balance |-> 0, total_credits |-> 0, total_debits |-> 0]

-----------------------------------------------------------------------------
(* Requests *)

\* A worker that serves no request; its session is empty
IdleReq ==
    [pc |-> "idle", user_id |-> 0, message_text |-> "", parsed |-> NoParse,
     balance |-> new_balance(0), created |-> FALSE, parser_calls |-> 0,
     pre |-> EmptyDB]

\* No request yet.  parser_calls counts the calls of
\* LLMService.parse_transaction_message the request made; balance is the
\* 'balance' of the response to a balance query.
NoRequest ==
    [op |-> "none", user_id |-> 0, message_text |-> "", expense_id |-> 0,
     new_amount |-> 0, parsed |-> NoParse, success |-> FALSE, outcome |-> "none",
     status |-> 0, entry_id |-> 0, parser_calls |-> 0,
     balance |-> [current_balance |-> 0, total_credits |-> 0, total_debits |-> 0],
     pre |-> EmptyDB]

AllIdle == \A w \in Workers : req[w].pc = "idle"

\* The handler returns: the response is recorded and the worker is free again.
\* A response given in the parse step is given after that step's parser call.
Respond(w, success, outcome, status, entry_id) ==
    /\ req' = [req EXCEPT ![w] = IdleReq]
    /\ prev' = last
    /\ last' = [NoRequest EXCEPT
                  !.op = "upload", !.user_id = req[w].user_id,
                  !.message_text = req[w].message_text,
                  !.parsed = req[w].parsed, !.success = success,
                  !.outcome = outcome, !.status = status, !.entry_id = entry_id,
                  !.parser_calls = req[w].parser_calls + (IF req[w].pc = "parse" THEN 1 ELSE 0),
                  !.pre = req[w].pre]
    /\ UNCHANGED nreq

\* The Transaction row of lines 121-132, flushed in the worker's session
processed_transaction(w) ==
    [id |-> next_id(transactions),
     user_id |-> req[w].user_id,
     message_text |-> req[w].message_text,
     message_hash |-> generate_message_hash(req[w].message_text),
     processing_status |-> "processed",
     transaction_type |-> req[w].parsed.transaction_type,
     amount |-> req[w].parsed.amount,
     category |-> req[w].parsed.expense_category,
     error_message |-> NULL]

\* The Transaction row of lines 108-114 (amount, type and category stay NULL;
\* the NULL amount is written 0)
error_transaction(w) ==
    [id |-> next_id(transactions),
     user_id |-> req[w].user_id,
     message_text |-> req[w].message_text,
     message_hash |-> generate_message_hash(req[w].message_text),
     processing_status |-> "error",
     transaction_type |-> NULL,
     amount |-> 0,
     category |-> NULL,
     error_message |-> "Failed to parse message with LLM"]

\* The failure branch as it would be with db.session.commit() in the place of
\* db.session.rollback(): the flushed Transaction row is stored
session_commit_flushed(w) ==
    /\ transactions' = transactions \cup {processed_transaction(w)}
    /\ UNCHANGED <<user_balance, expenses, incomes>>

\* db.session.rollback(): the session's uncommitted rows are dropped and the
\* tables keep their committed rows
session_rollback(w) == UNCHANGED tables


\* update_balance as it would be with the Debit branch adding to the balance
apply_update_debit_added(balance, amount, transaction_type) ==
    IF transaction_type = "Debit"
    THEN [balance EXCEPT !.current_balance = @ + amount, !.total_debits = @ + amount]
    ELSE [balance EXCEPT !.current_balance = @ + amount, !.total_credits = @ + amount]

\* update_balance lines 216-221 on the session's UserBalance object
apply_update(balance, amount, transaction_type) ==
    IF transaction_type = "Debit"
    THEN [balance EXCEPT !.current_balance = @ - amount, !.total_debits = @ + amount]
    ELSE [balance EXCEPT !.current_balance = @ + amount, !.total_credits = @ + amount]

\* The UPDATE that commit issues for an existing UserBalance row: the columns
\* the session assigned, with the values the session computed
write_balance(row, balance, transaction_type) ==
    IF transaction_type = "Debit"
    THEN [row EXCEPT !.current_balance = balance.current_balance,
                     !.total_debits = balance.total_debits]
    ELSE [row EXCEPT !.current_balance = balance.current_balance,
                     !.total_credits = balance.total_credits]

\* The lower length check as it would be with <= in the place of <
message_too_short_inclusive(message_text) ==
    message_length(message_text) <= MinMessageLength

\* routes/transactions.py lines 61 and 67
message_too_short(message_text) == message_length(message_text) < MinMessageLength

message_too_long(message_text) == message_length(message_text) > MaxMessageLength

\* routes/transactions.py upload_transaction_message, up to the service call:
\* a message whose stripped text is too short or too long is answered 400 at
\* once, any other is handed to process_transaction_message.
\* api_key: OPENAI_API_KEY is set.  Without it _get_service() (line 74) raises
\* the ValueError of LLMService.__init__, which the route's handler answers
\* with 500 'Server error'.  (The other handlers are modelled with the key set.)
upload_transaction_message(w, user_id, message, api_key) ==
    /\ req[w].pc = "idle"
    /\ nreq < MaxRequests
    /\ nreq' = nreq + 1
    /\ UNCHANGED <<tables, llm_response>>
    /\ LET message_text == strip(message)
           rejected(outcome, status) ==
               /\ prev' = last
               /\ last' = [NoRequest EXCEPT
                             !.op = "upload", !.user_id = user_id,
                             !.message_text = message_text,
                             !.outcome = outcome, !.status = status, !.pre = DB]
               /\ UNCHANGED req
       IN  IF message_too_short(message_text) THEN rejected("too_short", 400)
           ELSE IF message_too_long(message_text) THEN rejected("too_long", 400)
           ELSE IF ~api_key THEN rejected("no_service", 500)
           ELSE /\ req' = [req EXCEPT ![w] = [IdleReq EXCEPT !.pc = "check_duplicate",
                                                            !.user_id = user_id,
                                                            !.message_text = message_text,
                                                            !.pre = DB]]
                /\ UNCHANGED <<last, prev>>

\* process_transaction_message step 1 (lines 97-101)
process_check_duplicate(w) ==
    /\ req[w].pc = "check_duplicate"
    /\ UNCHANGED <<tables, llm_response>>
    /\ IF check_duplicate_message(req[w].user_id, generate_message_hash(req[w].message_text))
       THEN Respond(w, FALSE, "duplicate", 400, 0)
       ELSE /\ req' = [req EXCEPT ![w].pc = "parse"]
            /\ UNCHANGED <<nreq, last, prev>>

\* process_transaction_message step 2 as it would be with one retry of the
\* parser call after a failed one
process_parse_retrying(w, response) ==
    /\ req[w].pc = "parse"
    /\ LET parsed_data == parse_transaction_message(response) IN
       IF parsed_data.raised
       THEN /\ UNCHANGED tables
            /\ Respond(w, FALSE, "server_error", 500, 0)
       ELSE IF ~parsed_data.valid /\ req[w].parser_calls = 0
       THEN /\ req' = [req EXCEPT ![w].parser_calls = @ + 1]
            /\ UNCHANGED <<tables, nreq, last, prev>>
       ELSE IF ~parsed_data.valid
       THEN /\ transactions' = transactions \cup {error_transaction(w)}
            /\ UNCHANGED <<user_balance, expenses, incomes>>
            /\ Respond(w, FALSE, "parse_failed", 400, 0)
       ELSE /\ req' = [req EXCEPT ![w].pc = "update_balance", ![w].parsed = parsed_data,
                                  ![w].parser_calls = @ + 1]
            /\ UNCHANGED <<tables, nreq, last, prev>>

\* process_transaction_message step 2 and step 3 up to the flush (lines 103-134).
\* An exception of the parser call (line 104, outside the try) leaves
\* process_transaction_message and is answered by the route's handler with 500
\* 'Server error'; the session holds nothing yet.
process_parse(w, response) ==
    /\ req[w].pc = "parse"
    /\ LET parsed_data == parse_transaction_message(response) IN
       IF parsed_data.raised
       THEN /\ UNCHANGED tables
            /\ Respond(w, FALSE, "server_error", 500, 0)
       ELSE IF ~parsed_data.valid
       THEN /\ transactions' = transactions \cup {error_transaction(w)}
            /\ UNCHANGED <<user_balance, expenses, incomes>>
            /\ Respond(w, FALSE, "parse_failed", 400, 0)
       ELSE /\ req' = [req EXCEPT ![w].pc = "update_balance", ![w].parsed = parsed_data,
                                  ![w].parser_calls = @ + 1]
            /\ UNCHANGED <<tables, nreq, last, prev>>

\* update_balance lines 206-221: read or create the row, change the object.
\* fault: the query or the flush raises; update_balance returns False and
\* line 144 rolls the session back.
process_update_balance(w, fault) ==
    /\ req[w].pc = "update_balance"
    /\ UNCHANGED llm_response
    /\ IF fault
       THEN /\ session_rollback(w)
            /\ Respond(w, FALSE, "balance_failed", 400, 0)
       ELSE LET rows == balance_rows(req[w].user_id)
                balance == IF rows = {} THEN new_balance(req[w].user_id)
                           ELSE CHOOSE b \in rows : TRUE
            IN  /\ req' = [req EXCEPT
                     ![w].pc = "commit_balance",
                     ![w].created = (rows = {}),
                     ![w].balance = apply_update(balance, req[w].parsed.amount,
                                                 req[w].parsed.transaction_type)]
                /\ UNCHANGED <<tables, nreq, last, prev>>

\* The commit of update_balance as it would be if user_balance.user_id were
\* not unique: a second row for the user is stored
process_commit_balance_without_unique(w, fault) ==
    /\ req[w].pc = "commit_balance"
    /\ UNCHANGED llm_response
    /\ LET rows == balance_rows(req[w].user_id) IN
       IF fault
       THEN /\ session_rollback(w)
            /\ Respond(w, FALSE, "balance_failed", 400, 0)
       ELSE /\ transactions' = transactions \cup {processed_transaction(w)}
            /\ user_balance' =
                 IF req[w].created
                 THEN user_balance \cup {req[w].balance}
                 ELSE (user_balance \ rows) \cup
                      {write_balance(b, req[w].balance, req[w].parsed.transaction_type) : b \in rows}
            /\ req' = [req EXCEPT ![w].pc = "create_entry"]
            /\ UNCHANGED <<expenses, incomes, nreq, last, prev>>

\* update_balance line 226: db.session.commit() writes the flushed Transaction
\* and the UserBalance row.  The commit raises on a storage fault, and on the
\* unique user_id when another session has inserted the user's row meanwhile.
process_commit_balance(w, fault) ==
    /\ req[w].pc = "commit_balance"
    /\ UNCHANGED llm_response
    /\ LET rows == balance_rows(req[w].user_id) IN
       IF fault \/ (req[w].created /\ rows # {})
       THEN /\ session_rollback(w)
            /\ Respond(w, FALSE, "balance_failed", 400, 0)
       ELSE /\ transactions' = transactions \cup {processed_transaction(w)}
            /\ user_balance' =
                 IF req[w].created
                 THEN user_balance \cup {req[w].balance}
                 ELSE (user_balance \ rows) \cup
                      {write_balance(b, req[w].balance, req[w].parsed.transaction_type) : b \in rows}
            /\ req' = [req EXCEPT ![w].pc = "create_entry"]
            /\ UNCHANGED <<expenses, incomes, nreq, last, prev>>

\* Expense(...) of lines 152-164
new_expense(w) ==
    [id |-> next_id(expenses),
     user_id |-> req[w].user_id,
     amount |-> req[w].parsed.amount,
     category |-> req[w].parsed.expense_category,
     transaction_type |-> "Debit",
     is_auto_detected |-> TRUE,
     message_hash |-> generate_message_hash(req[w].message_text)]

\* Income(...) of lines 168-173
new_income(w) ==
    [id |-> next_id(incomes),
     user_id |-> req[w].user_id,
     amount |-> req[w].parsed.amount]

\* process_transaction_message step 5 (lines 147-183): the derived entry and
\* the second commit.  fault: the commit raises and the except branch rolls
\* the session back.
process_create_entry(w, fault) ==
    /\ req[w].pc = "create_entry"
    /\ UNCHANGED llm_response
    /\ IF fault
       THEN /\ session_rollback(w)
            /\ Respond(w, FALSE, "entry_failed", 400, 0)
       ELSE IF req[w].parsed.transaction_type = "Debit"
       THEN /\ expenses' = expenses \cup {new_expense(w)}
            /\ UNCHANGED <<transactions, user_balance, incomes>>
            /\ Respond(w, TRUE, "processed", 200, next_id(expenses))
       ELSE /\ incomes' = incomes \cup {new_income(w)}
            /\ UNCHANGED <<transactions, user_balance, expenses>>
            /\ Respond(w, TRUE, "processed", 200, next_id(incomes))

-----------------------------------------------------------------------------
(* Edit and delete of an auto-detected entry: one request, one session *)

\* The response of an edit or delete request is recorded
Finished(op, user_id, expense_id, new_amount, success, outcome, status) ==
    /\ prev' = last
    /\ last' = [NoRequest EXCEPT
                  !.op = op, !.user_id = user_id, !.expense_id = expense_id,
                  !.new_amount = new_amount, !.success = success,
                  !.outcome = outcome, !.status = status, !.pre = DB]


\* edit_auto_transaction as it would be with the difference taken the other way
edit_difference_reversed(old_amount, new_amount) == new_amount - old_amount

\* edit_auto_transaction line 297
edit_difference(old_amount, new_amount) == old_amount - new_amount

\* edit_auto_transaction as it would be if it changed the entry and left the
\* balance alone
adjust_balance_skipped(balance, old_amount, new_amount) == balance

\* edit_auto_transaction lines 295-301 on the user's UserBalance row
adjust_balance(balance, old_amount, new_amount) ==
    [balance EXCEPT !.current_balance = @ + edit_difference(old_amount, new_amount)]


\* delete_auto_transaction as it would be if the Debit branch left total_debits alone
reverse_update_keeps_total(balance, expense) ==
    IF expense.transaction_type = "Debit"
    THEN [balance EXCEPT !.current_balance = @ + expense.amount]
    ELSE [balance EXCEPT !.current_balance = @ - expense.amount,
                         !.total_credits = @ - expense.amount]

\* delete_auto_transaction lines 341-347 on the user's UserBalance row
reverse_update(balance, expense) ==
    IF expense.transaction_type = "Debit"
    THEN [balance EXCEPT !.current_balance = @ + expense.amount,
                         !.total_debits = @ - expense.amount]
    ELSE [balance EXCEPT !.current_balance = @ - expense.amount,
                         !.total_credits = @ - expense.amount]

\* routes/transactions.py edit_auto_transaction (PUT) with {"amount": new_amount}
\* and TransactionService.edit_auto_transaction.  fault: the commit raises.
edit_auto_transaction(user_id, expense_id, new_amount, fault) ==
    /\ AllIdle
    /\ nreq < MaxRequests
    /\ nreq' = nreq + 1
    /\ UNCHANGED <<req, transactions, incomes, llm_response>>
    /\ LET rows == auto_expense_rows(expense_id, user_id) IN
       IF ~validate_amount(new_amount)
       THEN /\ UNCHANGED <<expenses, user_balance>>
            /\ Finished("edit", user_id, expense_id, new_amount, FALSE, "invalid_amount", 400)
       ELSE IF rows = {}
       THEN /\ UNCHANGED <<expenses, user_balance>>
            /\ Finished("edit", user_id, expense_id, new_amount, FALSE, "not_found", 400)
       ELSE IF fault
       THEN /\ UNCHANGED <<expenses, user_balance>>
            /\ Finished("edit", user_id, expense_id, new_amount, FALSE, "error", 400)
       ELSE LET expense == CHOOSE e \in rows : TRUE
                old_amount == expense.amount
            IN  /\ expenses' = (expenses \ {expense}) \cup
                               {[expense EXCEPT !.amount = new_amount]}
                /\ user_balance' =
                     IF old_amount # new_amount
                     THEN {IF b.user_id = user_id
                           THEN adjust_balance(b, old_amount, new_amount)
                           ELSE b : b \in user_balance}
                     ELSE user_balance
                /\ Finished("edit", user_id, expense_id, new_amount, TRUE, "updated", 200)

\* delete_auto_transaction as it would be if it fetched the snapshot the way
\* update_balance does, creating the row when the user has none
balances_after_delete_creating(user_id, expense) ==
    IF balance_rows(user_id) = {}
    THEN user_balance \cup {reverse_update(new_balance(user_id), expense)}
    ELSE {IF b.user_id = user_id THEN reverse_update(b, expense) ELSE b :
             b \in user_balance}

\* delete_auto_transaction lines 339-347: the user's UserBalance row, when
\* there is one ("if balance:"), is changed; no row is created
balances_after_delete(user_id, expense) ==
    {IF b.user_id = user_id THEN reverse_update(b, expense) ELSE b :
        b \in user_balance}

\* delete_auto_transaction as it would be if it reversed the balance and left
\* the Expense row in the table
delete_auto_transaction_keeping_entry(user_id, expense_id, fault) ==
    /\ AllIdle
    /\ nreq < MaxRequests
    /\ nreq' = nreq + 1
    /\ UNCHANGED <<req, transactions, incomes, llm_response>>
    /\ LET rows == auto_expense_rows(expense_id, user_id) IN
       IF rows = {}
       THEN /\ UNCHANGED <<expenses, user_balance>>
            /\ Finished("delete", user_id, expense_id, 0, FALSE, "not_found", 400)
       ELSE IF fault
       THEN /\ UNCHANGED <<expenses, user_balance>>
            /\ Finished("delete", user_id, expense_id, 0, FALSE, "error", 400)
       ELSE LET expense == CHOOSE e \in rows : TRUE IN
            /\ UNCHANGED expenses
            /\ user_balance' = balances_after_delete(user_id, expense)
            /\ Finished("delete", user_id, expense_id, 0, TRUE, "deleted", 200)

\* delete_auto_transaction as it would be if it also deleted the Transaction
\* row of the entry's message
delete_auto_transaction_and_audit(user_id, expense_id, fault) ==
    /\ AllIdle
    /\ nreq < MaxRequests
    /\ nreq' = nreq + 1
    /\ UNCHANGED <<req, incomes, llm_response>>
    /\ LET rows == auto_expense_rows(expense_id, user_id) IN
       IF rows = {}
       THEN /\ UNCHANGED <<transactions, expenses, user_balance>>
            /\ Finished("delete", user_id, expense_id, 0, FALSE, "not_found", 400)
       ELSE IF fault
       THEN /\ UNCHANGED <<transactions, expenses, user_balance>>
            /\ Finished("delete", user_id, expense_id, 0, FALSE, "error", 400)
       ELSE LET expense == CHOOSE e \in rows : TRUE IN
            /\ expenses' = expenses \ {expense}
            /\ transactions' = {t \in transactions :
                                  ~(/\ t.user_id = user_id
                                    /\ t.message_hash = expense.message_hash)}
            /\ user_balance' = balances_after_delete(user_id, expense)
            /\ Finished("delete", user_id, expense_id, 0, TRUE, "deleted", 200)

\* routes/transactions.py delete_auto_transaction (DELETE) and
\* TransactionService.delete_auto_transaction.  fault: the commit raises.
delete_auto_transaction(user_id, expense_id, fault) ==
    /\ AllIdle
    /\ nreq < MaxRequests
    /\ nreq' = nreq + 1
    /\ UNCHANGED <<req, transactions, incomes, llm_response>>
    /\ LET rows == auto_expense_rows(expense_id, user_id) IN
       IF rows = {}
       THEN /\ UNCHANGED <<expenses, user_balance>>
            /\ Finished("delete", user_id, expense_id, 0, FALSE, "not_found", 400)
       ELSE IF fault
       THEN /\ UNCHANGED <<expenses, user_balance>>
            /\ Finished("delete", user_id, expense_id, 0, FALSE, "error", 400)
       ELSE LET expense == CHOOSE e \in rows : TRUE IN
            /\ expenses' = expenses \ {expense}
            /\ user_balance' = balances_after_delete(user_id, expense)
            /\ Finished("delete", user_id, expense_id, 0, TRUE, "deleted", 200)

-----------------------------------------------------------------------------
(* Manual entries and the balance query *)

\* routes/expenses.py add_expense (POST) with {"amount": amount, "description":
\* ...} and no category: a manual Expense row; is_auto_detected takes its
\* default False, transaction_type and message_hash stay NULL
add_expense(user_id, amount) ==
    /\ AllIdle
    /\ nreq < MaxRequests
    /\ nreq' = nreq + 1
    /\ UNCHANGED <<req, transactions, user_balance, incomes, llm_response>>
    /\ IF ~validate_amount(amount)
       THEN /\ UNCHANGED expenses
            /\ Finished("add", user_id, 0, amount, FALSE, "invalid_amount", 400)
       ELSE /\ expenses' = expenses \cup
                 {[id |-> next_id(expenses),
                   user_id |-> user_id,
                   amount |-> amount,
                   category |-> "Other",
                   transaction_type |-> NULL,
                   is_auto_detected |-> FALSE,
                   message_hash |-> NoHash]}
            /\ Finished("add", user_id, next_id(expenses), amount, TRUE, "added", 201)

\* Expense.query.filter_by(id=expense_id, user_id=user_id) of the generic
\* expense routes
expense_rows(expense_id, user_id) ==
    {e \in expenses : e.id = expense_id /\ e.user_id = user_id}

\* routes/expenses.py update_expense (PUT) with {"amount": amount}
update_expense(user_id, expense_id, amount) ==
    /\ AllIdle
    /\ nreq < MaxRequests
    /\ nreq' = nreq + 1
    /\ UNCHANGED <<req, transactions, user_balance, incomes, llm_response>>
    /\ LET rows == expense_rows(expense_id, user_id) IN
       IF rows = {}
       THEN /\ UNCHANGED expenses
            /\ Finished("update_expense", user_id, expense_id, amount, FALSE, "not_found", 404)
       ELSE IF ~validate_amount(amount)
       THEN /\ UNCHANGED expenses
            /\ Finished("update_expense", user_id, expense_id, amount, FALSE,
                        "invalid_amount", 400)
       ELSE LET expense == CHOOSE e \in rows : TRUE IN
            /\ expenses' = (expenses \ {expense}) \cup {[expense EXCEPT !.amount = amount]}
            /\ Finished("update_expense", user_id, expense_id, amount, TRUE, "updated", 200)

\* delete_expense as it would be if it reversed the entry's effect on the
\* balance the way delete_auto_transaction does
delete_expense_reversing(user_id, expense_id) ==
    /\ AllIdle
    /\ nreq < MaxRequests
    /\ nreq' = nreq + 1
    /\ UNCHANGED <<req, transactions, incomes, llm_response>>
    /\ LET rows == expense_rows(expense_id, user_id) IN
       IF rows = {}
       THEN /\ UNCHANGED <<expenses, user_balance>>
            /\ Finished("delete_expense", user_id, expense_id, 0, FALSE, "not_found", 404)
       ELSE LET expense == CHOOSE e \in rows : TRUE IN
            /\ expenses' = expenses \ {expense}
            /\ user_balance' = IF expense.is_auto_detected
                               THEN balances_after_delete(user_id, expense)
                               ELSE user_balance
            /\ Finished("delete_expense", user_id, expense_id, 0, TRUE, "deleted", 200)

\* routes/expenses.py delete_expense (DELETE)
delete_expense(user_id, expense_id) ==
    /\ AllIdle
    /\ nreq < MaxRequests
    /\ nreq' = nreq + 1
    /\ UNCHANGED <<req, transactions, user_balance, incomes, llm_response>>
    /\ LET rows == expense_rows(expense_id, user_id) IN
       IF rows = {}
       THEN /\ UNCHANGED expenses
            /\ Finished("delete_expense", user_id, expense_id, 0, FALSE, "not_found", 404)
       ELSE LET expense == CHOOSE e \in rows : TRUE IN
            /\ expenses' = expenses \ {expense}
            /\ Finished("delete_expense", user_id, expense_id, 0, TRUE, "deleted", 200)

\* routes/transactions.py get_current_balance (GET /api/balance/current)
get_current_balance(user_id) ==
    /\ AllIdle
    /\ nreq < MaxRequests
    /\ nreq' = nreq + 1
    /\ UNCHANGED <<req, tables, llm_response>>
    /\ prev' = last
    /\ last' = [NoRequest EXCEPT
                  !.op = "balance", !.user_id = user_id, !.success = TRUE,
                  !.outcome = "balance", !.status = 200,
                  !.balance = get_user_balance(user_id), !.pre = DB]

-----------------------------------------------------------------------------
(* Specifications *)

\* The ids a client can name: those in use and one that is not
ExpenseIds == {e.id : e \in expenses} \cup {next_id(expenses)}

Init ==
    /\ transactions = {}
    /\ user_balance = {}
    /\ expenses = {}
    /\ incomes = {}
    /\ req = [w \in Workers |-> IdleReq]
    /\ nreq = 0
    /\ last = NoRequest
    /\ prev = NoRequest
    /\ llm_response = NoResponse

\* The steps of one message-processing invocation after its arrival, the
\* language model answering with one of responses and the storage failing
\* (fault) or not at the places where the code handles it
Process(w, responses, faults) ==
    \/ process_check_duplicate(w)
    \/ \E response \in responses : process_parse(w, response) /\ UNCHANGED llm_response
    \/ \E fault \in faults : process_update_balance(w, fault)
    \/ \E fault \in faults : process_commit_balance(w, fault)
    \/ \E fault \in faults : process_create_entry(w, fault)

\* Requests arrive one after the other, each served to its response before the
\* next arrives, and the storage works
Next ==
    \/ AllIdle /\ \E u \in Users, m \in Messages :
          upload_transaction_message(Main, u, [text |-> m, padding |-> 0], TRUE)
    \/ Process(Main, LLMResponses, {FALSE})
    \/ \E u \in Users, id \in ExpenseIds, a \in Amounts \cup {0} :
          edit_auto_transaction(u, id, a, FALSE)
    \/ \E u \in Users, id \in ExpenseIds :
          delete_auto_transaction(u, id, FALSE)

Spec == Init /\ [][Next]_vars

\* The same requests, one after the other, with a storage that can fail
NextFault ==
    \/ AllIdle /\ \E m \in Messages :
          upload_transaction_message(Main, FaultUser, [text |-> m, padding |-> 0], TRUE)
    \/ Process(Main, LLMResponses, BOOLEAN)
    \/ \E id \in ExpenseIds, a \in Amounts, fault \in BOOLEAN :
          edit_auto_transaction(FaultUser, id, a, fault)
    \/ \E id \in ExpenseIds, fault \in BOOLEAN :
          delete_auto_transaction(FaultUser, id, fault)

SpecFault == Init /\ [][NextFault]_vars

\* Message uploads of one user served by concurrent workers, each with its own
\* session
NextConc ==
    \/ \E w \in Workers, m \in ConcMessages :
          upload_transaction_message(w, FaultUser, [text |-> m, padding |-> 0], TRUE)
    \/ \E w \in Workers : Process(w, ConcResponses, {FALSE})

SpecConc == Init /\ [][NextConc]_vars

\* Message uploads of one user, one after the other, over the whole input
\* space: request bodies of every length class, the API key set or not, and
\* every kind of answer of the language model, the answer kept in llm_response
NextInput ==
    \/ AllIdle /\ \E message \in RawMessages, api_key \in BOOLEAN :
          upload_transaction_message(Main, FaultUser, message, api_key)
    \/ process_check_duplicate(Main)
    \/ \E response \in ParseInputs :
          process_parse(Main, response) /\ llm_response' = response
    \/ process_update_balance(Main, FALSE)
    \/ process_commit_balance(Main, FALSE)
    \/ process_create_entry(Main, FALSE)

SpecInput == Init /\ [][NextInput]_vars

\* The answers of the language model in the runs about the entries: a Debit
\* and a Credit of amount 1
EntryResponses ==
    {r \in LLMResponses : /\ parse_transaction_message(r).valid
                          /\ r.amount = 1
                          /\ r.expense_category \in EXPENSE_CATEGORIES}

\* Two users keeping their entries, one request after the other: message
\* uploads, manual expenses, edits and deletes through the auto-detected flow
\* and through the generic expense routes, and balance queries
NextEntries ==
    \/ AllIdle /\ \E u \in Users, m \in Messages :
          upload_transaction_message(Main, u, [text |-> m, padding |-> 0], TRUE)
    \/ Process(Main, EntryResponses, {FALSE})
    \/ \E u \in Users, a \in {0, 1} : add_expense(u, a)
    \/ \E u \in Users, id \in ExpenseIds, a \in Amounts \cup {0} :
          edit_auto_transaction(u, id, a, FALSE)
    \/ \E u \in Users, id \in ExpenseIds :
          delete_auto_transaction(u, id, FALSE)
    \/ \E u \in Users, id \in ExpenseIds, a \in Amounts \cup {0} :
          update_expense(u, id, a)
    \/ \E u \in Users, id \in ExpenseIds : delete_expense(u, id)
    \/ \E u \in Users : get_current_balance(u)

SpecEntries == Init /\ [][NextEntries]_vars

\* An auto-detected Debit entry of FaultUser as process_transaction_message
\* stores it
stored_expense(amount) ==
    [id |-> 1,
     user_id |-> FaultUser,
     amount |-> amount,
     category |-> "Food",
     transaction_type |-> "Debit",
     is_auto_detected |-> TRUE,
     message_hash |-> generate_message_hash("m1")]

\* The application starts on a database that already holds one auto-detected
\* entry, with the owner's balance snapshot or without it.  No request handler
\* deletes a snapshot, so the database without it is one whose user_balance
\* row was removed outside the application.
InitStored ==
    /\ \E amount \in Amounts :
          /\ expenses = {stored_expense(amount)}
          /\ user_balance \in
               {{}, {apply_update(new_balance(FaultUser), amount, "Debit")}}
    /\ transactions = {}
    /\ incomes = {}
    /\ req = [w \in Workers |-> IdleReq]
    /\ nreq = 0
    /\ last = NoRequest
    /\ prev = NoRequest
    /\ llm_response = NoResponse

\* Edits, deletes and balance queries on that database
NextStored ==
    \/ \E u \in Users, id \in ExpenseIds, a \in Amounts \cup {0} :
          edit_auto_transaction(u, id, a, FALSE)
    \/ \E u \in Users, id \in ExpenseIds :
          delete_auto_transaction(u, id, FALSE)
    \/ \E u \in Users : get_current_balance(u)

SpecStored == InitStored /\ [][NextStored]_vars

-----------------------------------------------------------------------------
(* Properties *)

\* The derived entries of user_id that the finished upload r left: the expenses
\* carrying its fingerprint and the incomes added since it arrived
derived_entries(r) ==
    {<<"expense", e.id>> : e \in {x \in expenses :
         x.user_id = r.user_id /\ x.message_hash = generate_message_hash(r.message_text)}}
    \cup
    {<<"income", i.id>> : i \in {x \in incomes \ r.pre.incomes : x.user_id = r.user_id}}

\* C1: in every reachable state every user's balance snapshot has
\* current_balance = total_credits - total_debits.
C1_BalanceInvariant ==
    \A b \in user_balance : b.current_balance = b.total_credits - b.total_debits

\* The second of two submissions of the same message by the same user, one
\* directly after the other, the first of them parsed successfully
C2_Resubmitted ==
    /\ AllIdle
    /\ prev.op = "upload" /\ prev.parsed.valid
    /\ last.op = "upload"
    /\ last.user_id = prev.user_id
    /\ last.message_text = prev.message_text

\* C2: when a user submits a message again directly after a submission of it
\* that was parsed successfully, the second attempt is answered duplicate-skip
\* with success=false, all tables and so all three balance fields are as they
\* were before it, and there is exactly one TransactionRecord and exactly one
\* derived entry for that user and message.
C2_DuplicateSkipped ==
    C2_Resubmitted =>
        /\ last.outcome = "duplicate" /\ ~last.success
        /\ DB = last.pre
        /\ get_user_balance(last.user_id) = balance_in(last.pre, last.user_id)
        /\ Cardinality({t \in transactions :
               /\ t.user_id = last.user_id
               /\ t.message_hash = generate_message_hash(last.message_text)}) = 1
        /\ Cardinality(derived_entries(prev)) = 1

C2_Witness == C2_Resubmitted /\ last.outcome = "duplicate" /\ prev.success

\* C3: when two message-processing invocations of one user overlap (both
\* arrived on the same committed database) and both report success, the final
\* snapshot reflects both amounts in all three fields and
\* current_balance = total_credits - total_debits.
C3_NoLostUpdate ==
    (/\ AllIdle
     /\ prev.op = "upload" /\ prev.success
     /\ last.op = "upload" /\ last.success
     /\ last.user_id = prev.user_id
     /\ last.pre = prev.pre)
    => LET before == balance_in(last.pre, last.user_id)
           after == get_user_balance(last.user_id)
           credit(r) == IF r.parsed.transaction_type = "Credit" THEN r.parsed.amount ELSE 0
           debit(r) == IF r.parsed.transaction_type = "Debit" THEN r.parsed.amount ELSE 0
       IN  /\ after.total_credits = before.total_credits + credit(prev) + credit(last)
           /\ after.total_debits = before.total_debits + debit(prev) + debit(last)
           /\ after.current_balance = before.current_balance
                + credit(prev) + credit(last) - debit(prev) - debit(last)
           /\ after.current_balance = after.total_credits - after.total_debits

\* C4: in every reachable state there is at most one TransactionRecord per
\* (user, fingerprint), also when invocations for the same user and message
\* overlap.
C4_UniqueFingerprint ==
    \A t1, t2 \in transactions :
        (t1.user_id = t2.user_id /\ t1.message_hash = t2.message_hash) => t1 = t2

\* C5: when persisting the derived entry fails after the ledger update of the
\* message succeeded, all writes of the message are rolled back: the tables
\* are as they were before the message arrived.
C5_EntryFailureRollsBack ==
    (AllIdle /\ last.op = "upload" /\ last.outcome = "entry_failed") => DB = last.pre

\* A submission whose ledger update failed, directly followed by a submission
\* of the same message by the same user
C6_ResubmittedAfterFailure ==
    /\ AllIdle
    /\ prev.op = "upload" /\ prev.outcome = "balance_failed"
    /\ last.op = "upload"
    /\ last.user_id = prev.user_id
    /\ last.message_text = prev.message_text

\* C6: when the ledger update fails for a successfully parsed message, the
\* invocation reports failure and the tables are as they were before the
\* message arrived (no TransactionRecord, no balance change, no derived
\* entry); an identical submission directly after it is not answered
\* duplicate-skip.
C6_LedgerFailurePersistsNothing ==
    /\ (AllIdle /\ last.op = "upload" /\ last.outcome = "balance_failed")
          => (last.parsed.valid /\ ~last.success /\ DB = last.pre)
    /\ C6_ResubmittedAfterFailure => last.outcome # "duplicate"

C6_Witness == C6_ResubmittedAfterFailure /\ last.outcome = "processed"

\* C7: a successfully processed message with amount a changes the user's
\* snapshot (all zero when it was missing) so: Credit adds a to current_balance
\* and total_credits and leaves total_debits; Debit takes a from
\* current_balance, adds a to total_debits and leaves total_credits.
C7_ApplyExact ==
    (AllIdle /\ last.op = "upload" /\ last.success)
    => LET before == balance_in(last.pre, last.user_id)
           after == get_user_balance(last.user_id)
           a == last.parsed.amount
       IN  /\ Cardinality(balance_rows(last.user_id)) = 1
           /\ IF last.parsed.transaction_type = "Credit"
              THEN /\ after.current_balance = before.current_balance + a
                   /\ after.total_credits = before.total_credits + a
                   /\ after.total_debits = before.total_debits
              ELSE /\ after.current_balance = before.current_balance - a
                   /\ after.total_debits = before.total_debits + a
                   /\ after.total_credits = before.total_credits

C7_Witness ==
    /\ AllIdle /\ last.op = "upload" /\ last.success
    /\ last.parsed.transaction_type = "Debit"
    /\ \E b \in last.pre.user_balance : b.user_id = last.user_id /\ b.total_credits > 0

\* A successful upload directly followed by a successful auto-detected delete,
\* by the same user, of the entry id the upload created
DeletedAfterUpload(transaction_type) ==
    /\ AllIdle
    /\ prev.op = "upload" /\ prev.success
    /\ prev.parsed.transaction_type = transaction_type
    /\ last.op = "delete"
    /\ last.user_id = prev.user_id
    /\ last.expense_id = prev.entry_id

C9_CreditEntryDeletable ==
    DeletedAfterUpload("Credit")
    => /\ last.success
       /\ derived_entries(prev) = {}
       /\ get_user_balance(last.user_id) = balance_in(prev.pre, last.user_id)

\* A successful auto-detected edit that changed the amount of a Debit entry of
\* a user with a snapshot
C10_AmountEdited ==
    /\ AllIdle
    /\ last.op = "edit" /\ last.success
    /\ \E e \in last.pre.expenses :
          /\ e.id = last.expense_id /\ e.user_id = last.user_id
          /\ e.transaction_type = "Debit"
          /\ e.amount # last.new_amount
    /\ \E b \in last.pre.user_balance : b.user_id = last.user_id

\* C10: editing the amount of an auto-detected Debit entry from a to b, a # b,
\* changes current_balance by exactly a - b.
C10_EditAdjustsByOldMinusNew ==
    C10_AmountEdited
    => LET e == CHOOSE e \in last.pre.expenses :
                    e.id = last.expense_id /\ e.user_id = last.user_id
       IN  get_user_balance(last.user_id).current_balance
             - balance_in(last.pre, last.user_id).current_balance
           = e.amount - last.new_amount

C10_Witness == C10_AmountEdited /\ last.new_amount = 2

\* An upload whose parser call did not deliver a validated result
ParserFailed ==
    /\ AllIdle
    /\ last.op = "upload"
    /\ last.parser_calls = 1
    /\ ~last.parsed.valid

\* C11: whenever the parser fails for a non-duplicate message, the invocation
\* persists exactly one TransactionRecord with status error and a reason,
\* creates no derived entry, leaves the user's balance unchanged and returns
\* success=false.
C11_ParseFailureRecorded ==
    ParserFailed
    => /\ \E t \in transactions \ last.pre.transactions :
             /\ transactions = last.pre.transactions \cup {t}
             /\ t.user_id = last.user_id
             /\ t.message_hash = generate_message_hash(last.message_text)
             /\ t.processing_status = "error"
             /\ t.error_message # NULL
       /\ expenses = last.pre.expenses
       /\ incomes = last.pre.incomes
       /\ user_balance = last.pre.user_balance
       /\ ~last.success

\* A submission that ended in a recorded parse failure, directly followed by a
\* submission of the same message by the same user
C12_ResubmittedAfterParseFailure ==
    /\ AllIdle
    /\ prev.op = "upload" /\ prev.outcome = "parse_failed"
    /\ last.op = "upload"
    /\ last.user_id = prev.user_id
    /\ last.message_text = prev.message_text

\* C12: a message of accepted length is answered duplicate-skip exactly when
\* a TransactionRecord with its (user, fingerprint) existed when it arrived,
\* whatever the record's status; a duplicate-skip calls no parser and changes
\* no table; in particular the identical message resubmitted after a recorded
\* parse failure is a duplicate-skip with no second audit row and no balance
\* change.
C12_DuplicateWhateverStatus ==
    /\ (AllIdle /\ last.op = "upload" /\ last.outcome \notin {"too_short", "too_long"})
       => /\ last.outcome = "duplicate"
               <=> \E t \in last.pre.transactions :
                      /\ t.user_id = last.user_id
                      /\ t.message_hash = generate_message_hash(last.message_text)
          /\ last.outcome = "duplicate" => (last.parser_calls = 0 /\ DB = last.pre)
    /\ C12_ResubmittedAfterParseFailure
       => /\ last.outcome = "duplicate"
          /\ last.parser_calls = 0
          /\ transactions = last.pre.transactions
          /\ Cardinality({t \in transactions :
                 /\ t.user_id = last.user_id
                 /\ t.message_hash = generate_message_hash(last.message_text)}) = 1
          /\ user_balance = last.pre.user_balance

C12_Witness ==
    /\ C12_ResubmittedAfterParseFailure
    /\ last.outcome = "duplicate"
    /\ \E t \in transactions :
          /\ t.user_id = last.user_id
          /\ t.message_hash = generate_message_hash(last.message_text)
          /\ t.processing_status = "error"

\* C13: a message whose stripped text is shorter than 10 or longer than 2000
\* characters is rejected before any parser call or audit write: no table is
\* changed; a message of exactly 10 or exactly 2000 characters is not rejected
\* by the length check.
C13_LengthBounds ==
    (AllIdle /\ last.op = "upload")
    => LET n == message_length(last.message_text) IN
       /\ (n < 10 \/ n > 2000)
          => /\ last.outcome \in {"too_short", "too_long"}
             /\ ~last.success
             /\ last.parser_calls = 0
             /\ DB = last.pre
       /\ n \in {10, 2000} => last.outcome \notin {"too_short", "too_long"}

\* Both sides of the lower bound have been seen: a text of 9 characters was
\* rejected and then a text of 10 characters went on to the parser
C13_Witness ==
    /\ AllIdle
    /\ prev.op = "upload" /\ message_length(prev.message_text) = 9
    /\ prev.outcome = "too_short"
    /\ last.op = "upload" /\ message_length(last.message_text) = 10
    /\ last.parser_calls = 1

\* C14: the auto-detected edit and delete flows never delete or modify a
\* TransactionRecord: the table of audit records, with every field of every
\* record, is after the flow what it was before it.
C14_AuditUntouched ==
    (AllIdle /\ last.op \in {"edit", "delete"}) => transactions = last.pre.transactions

\* An entry was edited, then deleted, and the audit record of its message is
\* still there with the parsed amount
C14_Witness ==
    /\ AllIdle
    /\ prev.op = "edit" /\ prev.success
    /\ last.op = "delete" /\ last.success /\ last.expense_id = prev.expense_id
    /\ \E e \in last.pre.expenses, t \in transactions :
          /\ e.id = last.expense_id
          /\ t.user_id = e.user_id /\ t.message_hash = e.message_hash
          /\ t.processing_status = "processed"
          /\ t.amount # e.amount

\* An edit (with a valid amount, so that it reaches the service) or a delete
\* through the auto-detected flow whose entry id names no auto-detected entry
\* of the requesting user: no entry has the id, or the entry belongs to
\* another user, or it is a manual entry
C15_NoSuchAutoEntry ==
    /\ AllIdle
    /\ last.op \in {"edit", "delete"}
    /\ last.op = "edit" => last.new_amount > 0
    /\ ~\E e \in last.pre.expenses :
          e.id = last.expense_id /\ e.user_id = last.user_id /\ e.is_auto_detected

\* C15: such a request fails with the one not-found result, whichever of the
\* three cases it is, and changes no entry and no balance field of any user.
C15_NotFoundChangesNothing ==
    C15_NoSuchAutoEntry
    => /\ ~last.success
       /\ last.outcome = "not_found"
       /\ last.status = 400
       /\ DB = last.pre

\* A user's manual entry was named by another user's edit and then by the
\* owner's delete, and is still there
C15_Witness ==
    /\ C15_NoSuchAutoEntry
    /\ prev.op = "edit" /\ prev.new_amount > 0 /\ prev.outcome = "not_found"
    /\ last.op = "delete" /\ last.expense_id = prev.expense_id
    /\ prev.user_id # last.user_id
    /\ \E e \in expenses :
          e.id = last.expense_id /\ e.user_id = last.user_id /\ ~e.is_auto_detected

\* C16: the ingestion endpoint answers with status 200 on success and on an
\* expected rejection: a duplicate-skip is answered with status 200 and
\* success=false.
C16_DuplicateAnswered200 ==
    (AllIdle /\ last.op = "upload")
    => /\ last.success => last.status = 200
       /\ last.outcome = "duplicate" => (last.status = 200 /\ ~last.success)

\* A balance query of a user who had no snapshot
C17_QueriedWithoutSnapshot ==
    /\ AllIdle
    /\ last.op = "balance"
    /\ ~\E b \in last.pre.user_balance : b.user_id = last.user_id

C18_WithoutSnapshot ==
    /\ AllIdle
    /\ last.op \in {"edit", "delete"}
    /\ \E e \in last.pre.expenses :
          /\ e.id = last.expense_id /\ e.user_id = last.user_id /\ e.is_auto_detected
          /\ last.op = "edit" => (last.new_amount > 0 /\ last.new_amount # e.amount)
    /\ ~\E b \in last.pre.user_balance : b.user_id = last.user_id

\* C18: when the user has no balance snapshot, an auto-detected edit that
\* changes the amount and an auto-detected delete complete and report success:
\* the entry has the new amount or is gone, and no snapshot is created.
C18_EntryChangedWithoutSnapshot ==
    C18_WithoutSnapshot
    => /\ last.success /\ last.status = 200
       /\ user_balance = last.pre.user_balance
       /\ IF last.op = "edit"
          THEN \E e \in expenses :
                  /\ e.id = last.expense_id /\ e.user_id = last.user_id
                  /\ e.amount = last.new_amount
          ELSE ~\E e \in expenses : e.id = last.expense_id

\* The entry was edited to a new amount and then deleted, both without a
\* snapshot
C18_Witness ==
    /\ C18_WithoutSnapshot
    /\ prev.op = "edit" /\ prev.success /\ prev.pre.user_balance = {}
    /\ last.op = "delete" /\ last.expense_id = prev.expense_id
    /\ expenses = {}

\* A response that is well-formed: a JSON object with all four required
\* fields, a direction in {Credit, Debit} and a numeric amount greater than 0
WellFormedResponse(response) ==
    /\ response.api_ok /\ response.json_ok /\ response.json_type = "object"
    /\ response.has_fields
    /\ response.transaction_type \in {"Credit", "Debit"}
    /\ response.numeric /\ response.amount > 0

\* C19: the validation accepts the parser's response only when it is
\* well-formed; every other response yields a parse failure; so no derived
\* entry and no TransactionRecord with status processed has a non-positive
\* amount or a direction outside {Credit, Debit}.
C19_ValidationExact ==
    /\ (AllIdle /\ last.op = "upload" /\ last.parser_calls = 1
           /\ ~WellFormedResponse(llm_response))
       => (~last.parsed.valid /\ last.outcome = "parse_failed")
    /\ \A t \in transactions :
          t.processing_status = "processed"
          => (t.amount > 0 /\ t.transaction_type \in {"Credit", "Debit"})
    /\ \A e \in expenses :
          e.is_auto_detected => (e.amount > 0 /\ e.transaction_type \in {"Credit", "Debit"})
    /\ \A i \in incomes : i.amount > 0

\* An upload whose parser answered a well-formed response with a category
\* outside the fixed set
C20_UnlistedCategory ==
    /\ AllIdle
    /\ last.op = "upload" /\ last.parser_calls = 1
    /\ WellFormedResponse(llm_response)
    /\ llm_response.expense_category \notin
          {"Food", "Travel", "Shopping", "Bills", "Entertainment", "Health", "Other"}

\* C20: when the parser's response is otherwise valid but its category is not
\* one of the fixed set, the pipeline completes successfully with the category
\* 'Other': the audit record is written with status processed and category
\* 'Other', the balance is updated by the amount, and the derived entry is
\* written (an expense with category 'Other' for a Debit, an income for a
\* Credit).
C20_CategoryFallsBackToOther ==
    C20_UnlistedCategory
    => LET a == llm_response.amount
           before == balance_in(last.pre, last.user_id)
           after == get_user_balance(last.user_id)
       IN  /\ last.success
           /\ last.parsed.expense_category = "Other"
           /\ \E t \in transactions \ last.pre.transactions :
                 /\ t.user_id = last.user_id
                 /\ t.message_hash = generate_message_hash(last.message_text)
                 /\ t.processing_status = "processed"
                 /\ t.transaction_type = llm_response.transaction_type
                 /\ t.amount = a
                 /\ t.category = "Other"
           /\ IF llm_response.transaction_type = "Debit"
              THEN /\ after.current_balance = before.current_balance - a
                   /\ after.total_debits = before.total_debits + a
                   /\ \E e \in expenses \ last.pre.expenses :
                         /\ e.id = last.entry_id /\ e.user_id = last.user_id
                         /\ e.amount = a /\ e.category = "Other"
              ELSE /\ after.current_balance = before.current_balance + a
                   /\ after.total_credits = before.total_credits + a
                   /\ \E i \in incomes \ last.pre.incomes :
                         /\ i.id = last.entry_id /\ i.user_id = last.user_id
                         /\ i.amount = a

C20_Witness ==
    /\ C20_UnlistedCategory
    /\ llm_response.transaction_type = "Debit"
    /\ \E e \in expenses : e.id = last.entry_id /\ e.category = "Other"

\* The row has the columns is_auto_detected and message_hash, the first true
\* and the second the fingerprint of message_text
TaggedWithFingerprint(row, message_text) ==
    /\ "is_auto_detected" \in DOMAIN row
    /\ row.is_auto_detected
    /\ "message_hash" \in DOMAIN row
    /\ row.message_hash = generate_message_hash(message_text)

\* C21: every successfully processed message creates exactly one derived
\* entry, an Expense for a Debit and an Income for a Credit, and in both cases
\* the entry is tagged is_auto_detected=true and carries the fingerprint of
\* the message.
C21_DerivedEntryTagged ==
    (AllIdle /\ last.op = "upload" /\ last.success)
    => LET new_expenses == expenses \ last.pre.expenses
           new_incomes == incomes \ last.pre.incomes
       IN  /\ Cardinality(new_expenses) + Cardinality(new_incomes) = 1
           /\ IF last.parsed.transaction_type = "Debit"
              THEN /\ new_incomes = {}
                   /\ \A e \in new_expenses :
                         TaggedWithFingerprint(e, last.message_text)
              ELSE /\ new_expenses = {}
                   /\ \A i \in new_incomes :
                         TaggedWithFingerprint(i, last.message_text)

\* An upload that found the parser capability unavailable: the parser service
\* could not be constructed, or its call reached no language model
C22_ParserUnavailable ==
    /\ AllIdle
    /\ last.op = "upload"
    /\ \/ last.outcome = "no_service"
       \/ last.parser_calls = 1 /\ ~llm_response.api_ok

\* C22: when the parser capability is unavailable, the ingestion endpoint
\* answers with status 503.
C22_Unavailable503 == C22_ParserUnavailable => last.status = 503

\* C23: in every pipeline invocation the parser is invoked at most once:
\* exactly once for a non-duplicate message of valid length, zero times for a
\* duplicate or a length-rejected message; an invocation that ended in a
\* parse failure made one call.
C23_ParserCalledOnce ==
    /\ \A w \in Workers :
          /\ req[w].parser_calls <= 1
          /\ req[w].pc \in {"check_duplicate", "parse"} => req[w].parser_calls = 0
    /\ (AllIdle /\ last.op = "upload" /\ last.outcome # "no_service")
       => LET n == message_length(last.message_text)
              seen == \E t \in last.pre.transactions :
                         /\ t.user_id = last.user_id
                         /\ t.message_hash = generate_message_hash(last.message_text)
          IN  /\ last.parser_calls <= 1
              /\ (n < 10 \/ n > 2000 \/ seen) => last.parser_calls = 0
              /\ (n >= 10 /\ n <= 2000 /\ ~seen) => last.parser_calls = 1
              /\ last.outcome = "duplicate" => last.parser_calls = 0
              /\ last.outcome = "parse_failed" => last.parser_calls = 1

\* A parse failure with its one call, followed by the duplicate-skip of the
\* same message with none
C23_Witness ==
    /\ AllIdle
    /\ prev.op = "upload" /\ prev.outcome = "parse_failed" /\ prev.parser_calls = 1
    /\ last.op = "upload" /\ last.message_text = prev.message_text
    /\ last.outcome = "duplicate" /\ last.parser_calls = 0

\* The rows of user_id in a database
rows_of(db, user_id) ==
    [transactions |-> {t \in db.transactions : t.user_id = user_id},
     user_balance |-> {b \in db.user_balance : b.user_id = user_id},
     expenses |-> {e \in db.expenses : e.user_id = user_id},
     incomes |-> {i \in db.incomes : i.user_id = user_id}]

\* A message submitted by one user directly after another user's successful
\* submission of the same text, the second user not having submitted it before
C24_SameTextOtherUser ==
    /\ AllIdle
    /\ prev.op = "upload" /\ prev.success
    /\ last.op = "upload"
    /\ last.user_id # prev.user_id
    /\ last.message_text = prev.message_text
    /\ ~\E t \in last.pre.transactions :
          /\ t.user_id = last.user_id
          /\ t.message_hash = generate_message_hash(last.message_text)

\* C24: duplicate detection and bookkeeping are per user: a text another user
\* has submitted is not a duplicate for this user and goes to the parser, and
\* no message submission, edit or delete of a user changes a
\* TransactionRecord, derived entry or balance snapshot of another user.
C24_PerUser ==
    /\ C24_SameTextOtherUser => (last.outcome # "duplicate" /\ last.parser_calls = 1)
    /\ (AllIdle /\ last.op \in {"upload", "edit", "delete"})
       => \A v \in Users \ {last.user_id} : rows_of(DB, v) = rows_of(last.pre, v)

\* Both users had the same text processed, and the first user's rows are there
C24_Witness ==
    /\ C24_SameTextOtherUser
    /\ last.success
    /\ rows_of(DB, prev.user_id).transactions # {}
    /\ rows_of(DB, prev.user_id).user_balance # {}

\* C25: in every reachable state each user has at most one balance snapshot,
\* and a user has one only when a ledger update of that user has succeeded
\* (a TransactionRecord with status processed of the user is stored), also
\* when first-time submissions of the user overlap.
C25_OneSnapshotPerUser ==
    \A u \in Users :
        /\ Cardinality(balance_rows(u)) <= 1
        /\ balance_rows(u) # {}
           => \E t \in transactions : t.user_id = u /\ t.processing_status = "processed"

\* Two first-time submissions of a user overlapped: both found no snapshot,
\* one created it and the other failed
C25_Witness ==
    /\ AllIdle
    /\ prev.op = "upload" /\ last.op = "upload"
    /\ prev.user_id = last.user_id
    /\ prev.pre.user_balance = {} /\ last.pre.user_balance = {}
    /\ prev.success /\ last.outcome = "balance_failed"
    /\ Cardinality(balance_rows(last.user_id)) = 1

\* C26: the generic expense update and delete endpoints never change any
\* field of a balance snapshot, also when the expense they change or remove
\* is an auto-detected entry created by the pipeline.
C26_GenericRoutesLeaveBalance ==
    (AllIdle /\ last.op \in {"update_expense", "delete_expense"})
    => user_balance = last.pre.user_balance

\* An auto-detected entry had its amount changed and was then removed through
\* the generic routes, and the owner's snapshot still counts it
C26_Witness ==
    /\ AllIdle
    /\ prev.op = "update_expense" /\ prev.success
    /\ last.op = "delete_expense" /\ last.success
    /\ last.expense_id = prev.expense_id
    /\ \E e \in prev.pre.expenses :
          e.id = last.expense_id /\ e.is_auto_detected /\ e.amount # prev.new_amount
    /\ \E b \in user_balance : b.user_id = last.user_id /\ b.total_debits > 0

\* The first three requests were: a Debit message processed on the empty
\* database, a successful edit of the amount of the entry it created, and a
\* successful delete of that entry, all by one user
C27_ProcessedEditedDeleted ==
    /\ AllIdle
    /\ nreq = 3
    /\ prev.op = "edit" /\ prev.success /\ prev.new_amount > 0
    /\ last.op = "delete" /\ last.success
    /\ last.user_id = prev.user_id /\ last.expense_id = prev.expense_id
    /\ \E e \in prev.pre.expenses :
          /\ prev.pre.expenses = {e}
          /\ e.id = prev.expense_id /\ e.user_id = prev.user_id
          /\ e.is_auto_detected /\ e.transaction_type = "Debit"

\* C27: processing a Debit message with amount a, editing the created entry's
\* amount to b > 0 and then deleting the entry returns current_balance,
\* total_credits and total_debits to their values before processing (all 0
\* here: the message was processed on the empty database).
C27_EditRoundTrip ==
    C27_ProcessedEditedDeleted
    => /\ get_user_balance(last.user_id).current_balance = 0
       /\ get_user_balance(last.user_id).total_credits = 0
       /\ get_user_balance(last.user_id).total_debits = 0

\* The sum of the amounts of a set of rows
RECURSIVE SumOfAmounts(_)
SumOfAmounts(rows) ==
    IF rows = {} THEN 0
    ELSE LET r == CHOOSE r \in rows : TRUE
         IN  r.amount + SumOfAmounts(rows \ {r})

C29_DeletedTwice ==
    /\ AllIdle
    /\ prev.op = "delete" /\ prev.success
    /\ last.op = "delete"
    /\ last.user_id = prev.user_id
    /\ last.expense_id = prev.expense_id

\* C29: deleting the same auto-detected entry twice reverses the balance only
\* once: the second delete request returns the not-found result and leaves
\* current_balance, total_credits and total_debits unchanged.
C29_SecondDeleteNotFound ==
    C29_DeletedTwice
    => /\ last.outcome = "not_found" /\ ~last.success /\ last.status = 400
       /\ get_user_balance(last.user_id) = balance_in(last.pre, last.user_id)
       /\ user_balance = last.pre.user_balance

C29_Witness ==
    /\ C29_DeletedTwice
    /\ last.outcome = "not_found"
    /\ balance_in(prev.pre, last.user_id) # get_user_balance(last.user_id)

\* C30: in every state reachable by message submissions, auto-detected edits
\* with a new amount > 0 and auto-detected deletes, total_credits >= 0 and
\* total_debits >= 0 for every user.
C30_TotalsNonNegative ==
    \A b \in user_balance : b.total_credits >= 0 /\ b.total_debits >= 0

====
